---- MODULE Spec2Model ----
(***************************************************************************)
(* Model of the Kavout dashboard component (App) and its HTTP client       *)
(* (api.js).  The state is the component's React state plus the requests   *)
(* that are in flight; one action per event handler, effect run or         *)
(* continuation after an await.                                            *)
(*                                                                         *)
(* Atomicity.  JavaScript runs a handler to completion up to its first     *)
(* await, and React flushes the state updates of a discrete event (click,  *)
(* submit, change) and the effects they schedule before the next event is  *)
(* dispatched.  So the synchronous head of a handler together with the     *)
(* re-render and the effect it causes is one action, and the continuation  *)
(* that runs when the promise settles (try-rest or catch, then finally) is *)
(* another.                                                                *)
(***************************************************************************)
EXTENDS Integers, Sequences, FiniteSets, TLC

\* ---------------------------------------------------------------- bounds
\* Effect runs and button presses over a run (the mount effect is the first).
MaxActions == 3
\* Longest forecast the server returns in the forecastRows specification.
MaxLen == 3
\* Largest price (in whole rupees, from 0) in the forecastRows specification.
MaxPrice == 3

\* ------------------------------------------------------------- JS values
\* null and undefined in a slot that otherwise holds a string.
Null == "<null>"
Undefined == "<undefined>"
\* null in a slot that otherwise holds a response body (a record).
NoResult == [null |-> TRUE]

\* JavaScript truthiness of a string-valued slot: "", null and undefined are
\* falsy, every other string is truthy.
Truthy(v) == v # "" /\ v # Null /\ v # Undefined

\* a || b
Or(a, b) == IF Truthy(a) THEN a ELSE b

\* A numeric form field holds a number until its input is edited and the
\* input's text (e.target.value, a string) from then on.
Num(n) == [number |-> n]

Str(text) == [string |-> text]

\* -------------------------------------------------------------- numbers
\* A JavaScript number is an IEEE 754 binary64.  Whole numbers (prices,
\* lengths, counts) are kept as integers; the result of a division is kept
\* as the double it is: sign * mant * 2^exp, mant being the 53-digit
\* significand in limbs of LimbBits binary digits, least significant first
\* (<<>> for zero).  Naturals too large for an integer are sequences of
\* binary digits or of limbs, least significant first.
Abs(n) == IF n < 0 THEN -n ELSE n

Max(S) == CHOOSE x \in S : \A y \in S : y <= x

\* Binary digits of the significand.
Precision == 53

LimbBits == 10

LimbBase == 2 ^ LimbBits

\* Limbs of the fraction computed by a division: more than Precision + 2
\* digits after the leading one for every divisor below 2^21.
FracLen == 9

Zeros(n) == [i \in 1 .. n |-> 0]

Bit(bits, i) == IF i \in DOMAIN bits THEN bits[i] ELSE 0

\* bits without its leading zeros
Trim(bits) ==
  LET ones == {i \in DOMAIN bits : bits[i] = 1}
  IN  IF ones = {} THEN <<>> ELSE SubSeq(bits, 1, Max(ones))

\* the j-th group of LimbBits digits, as an integer
Limb(bits, j) ==
  LET o == LimbBits * (j - 1)
  IN  Bit(bits, o + 1) + 2 * Bit(bits, o + 2) + 4 * Bit(bits, o + 3)
        + 8 * Bit(bits, o + 4) + 16 * Bit(bits, o + 5) + 32 * Bit(bits, o + 6)
        + 64 * Bit(bits, o + 7) + 128 * Bit(bits, o + 8) + 256 * Bit(bits, o + 9)
        + 512 * Bit(bits, o + 10)

Limbs(bits) == [j \in 1 .. (Len(bits) + LimbBits - 1) \div LimbBits |-> Limb(bits, j)]

BitsOfLimbs(limbs) ==
  Trim([i \in 1 .. LimbBits * Len(limbs) |->
          (limbs[(i - 1) \div LimbBits + 1] \div 2 ^ ((i - 1) % LimbBits)) % 2])

\* digits of a natural below 2^31
BitsOf(n) ==
  BitsOfLimbs(<<n % LimbBase, (n \div LimbBase) % LimbBase,
                (n \div (LimbBase * LimbBase)) % LimbBase,
                n \div (LimbBase * LimbBase * LimbBase)>>)

\* the natural, below 2^31, of the digits
ValueOf(bits) ==
  Limb(bits, 1)
    + LimbBase * (Limb(bits, 2) + LimbBase * (Limb(bits, 3) + LimbBase * Limb(bits, 4)))

RECURSIVE MulLimbs(_, _, _, _)
MulLimbs(limbs, k, j, carry) ==
  IF j > Len(limbs)
  THEN IF carry = 0
       THEN <<>>
       ELSE <<carry % LimbBase>> \o MulLimbs(limbs, k, j, carry \div LimbBase)
  ELSE LET t == limbs[j] * k + carry
       IN  <<t % LimbBase>> \o MulLimbs(limbs, k, j + 1, t \div LimbBase)

\* limbs * k, exactly, for a natural k below 2^21, in binary digits
MulBits(limbs, k) == BitsOfLimbs(MulLimbs(limbs, k, 1, 0))

\* The first m limbs of r / b after the point (r < b), least significant
\* first, and what is left of r after them.
RECURSIVE FracLimbs(_, _, _)
FracLimbs(r, b, m) ==
  IF m = 0
  THEN <<>>
  ELSE FracLimbs((r * LimbBase) % b, b, m - 1) \o <<(r * LimbBase) \div b>>

RECURSIVE FracRem(_, _, _)
FracRem(r, b, m) == IF m = 0 THEN r ELSE FracRem((r * LimbBase) % b, b, m - 1)

\* bits + 1
Inc(bits) ==
  LET zeros == {i \in DOMAIN bits : bits[i] = 0}
  IN  IF zeros = {}
      THEN Zeros(Len(bits)) \o <<1>>
      ELSE LET z == CHOOSE i \in zeros : \A j \in zeros : i <= j
           IN  [i \in DOMAIN bits |-> IF i < z THEN 0 ELSE IF i = z THEN 1 ELSE bits[i]]

\* The double nearest to sign * (bits + e) * 2^exp, where 0 < e < 1 if
\* sticky and e = 0 otherwise; a tie goes to the even significand.
Round(sign, bits, exp, sticky) ==
  LET L == Len(bits)
  IN  IF L = 0
      THEN [sign |-> sign, mant |-> <<>>, exp |-> 0]
      ELSE IF L <= Precision
      THEN [sign |-> sign, mant |-> Limbs(Zeros(Precision - L) \o bits),
            exp |-> exp - (Precision - L)]
      ELSE LET d == L - Precision
               kept == SubSeq(bits, d + 1, L)
               rest == sticky \/ \E i \in 1 .. d - 1 : bits[i] = 1
               up == bits[d] = 1 /\ (rest \/ kept[1] = 1)
               m == IF up THEN Inc(kept) ELSE kept
           IN  IF Len(m) > Precision
               THEN [sign |-> sign, mant |-> Limbs(SubSeq(m, 2, Len(m))),
                     exp |-> exp + d + 1]
               ELSE [sign |-> sign, mant |-> Limbs(m), exp |-> exp + d]

\* the number 0
Zero == Round(1, <<>>, 0, FALSE)

\* a / b for whole numbers a and b, b # 0
Divide(a, b) ==
  LET n == Abs(a)
      d == Abs(b)
      q == BitsOfLimbs(FracLimbs(n % d, d, FracLen) \o Limbs(BitsOf(n \div d)))
  IN  Round(IF (a < 0) # (b < 0) THEN -1 ELSE 1, q, -(LimbBits * FracLen),
            FracRem(n % d, d, FracLen) # 0)

\* x * k for a double x and a whole number k
Times(x, k) ==
  Round(IF k < 0 THEN -x.sign ELSE x.sign, MulBits(x.mant, Abs(k)), x.exp, FALSE)

\* ------------------------------------------------------------- constants
sourceOptions == <<"local", "auto", "yfinance">>

periodOptions == <<"1y", "3y", "5y", "10y">>

horizonPresets == <<5, 10, 15, 30>>

initialTrain ==
  [ticker |-> "RELIANCE", period |-> "5y", input_len |-> Num(60),
   pred_len |-> Num(5), epochs |-> Num(30), batch_size |-> Num(32),
   learning_rate |-> Num(Divide(1, 1000)), data_source |-> "local",
   local_data_dir |-> ""]

initialPredict ==
  [ticker |-> "RELIANCE", horizon |-> Num(10), history_points |-> Num(90),
   data_source |-> "local", local_data_dir |-> ""]

\* Values a user types into the Local Data Directory input.
Dirs == {"", "backend/data"}

\* ------------------------------------------------------------------ state
VARIABLES
  mounted,         \* the component has rendered and run its mount effect
  trainForm, predictForm, symbols,
  trainResult, forecastResult, historyOnly,
  loadingTrain, loadingPredict, loadingHistory, loadingSymbols,
  error,
  forecastRows,    \* the memoised forecast tape
  net,             \* requests in flight, each with the closure awaiting it
  nextId,          \* id of the next request
  accepted,        \* per kind, the user actions the handlers were run for
                   \* ("edit": an edit that sends no request)
  wire             \* everything that crossed the wire, in order

vars == <<mounted, trainForm, predictForm, symbols, trainResult, forecastResult,
          historyOnly, loadingTrain, loadingPredict, loadingHistory,
          loadingSymbols, error, forecastRows, net, nextId, accepted, wire>>

Kinds == {"train", "predict", "history", "symbols"}

\* What accepted counts: the runs of the four request handlers, and the
\* runs of the handlers that only set form state.
Handled == Kinds \cup {"edit"}

\* ------------------------------------------------------------ api.js
\* Each function issues one call on the axios instance and resolves to the
\* response's data; the call is what goes on the wire.
trainModel(payload) == [method |-> "POST", path |-> "/api/train", data |-> payload]

predictStock(payload) == [method |-> "POST", path |-> "/api/predict", data |-> payload]

getSymbols(params) == [method |-> "GET", path |-> "/api/symbols", data |-> params]

getHistory(params) == [method |-> "GET", path |-> "/api/history", data |-> params]

\* The call leaves; the async function that made it is suspended at its await
\* with the render's values it closed over (closure).
Issue(kind, call, closure) ==
  /\ net' = net \cup {[id |-> nextId, kind |-> kind, call |-> call, closure |-> closure]}
  /\ wire' = Append(wire, [ev |-> "send", id |-> nextId, kind |-> kind, call |-> call])
  /\ nextId' = nextId + 1

\* The promise of request r settles, with a response or with an error.
Settle(r, outcome, value) ==
  /\ net' = net \ {r}
  /\ wire' = Append(wire, [ev |-> outcome, id |-> r.id, kind |-> r.kind,
                           value |-> IF outcome = "ok" THEN value ELSE Null])
  /\ UNCHANGED nextId

\* ------------------------------------------------- what the server sends
\* Response bodies of POST /api/train; the training snapshot reads all five
\* fields (val_loss 0.25 and 0.5, val_rmse 0.5 and 0.75).
TrainBodies ==
  {[ticker |-> "RELIANCE", source |-> "local", val_loss |-> Divide(1, 4),
    val_rmse |-> Divide(1, 2), direction_accuracy |-> 1],
   [ticker |-> "TCS", source |-> "yfinance", val_loss |-> Divide(1, 2),
    val_rmse |-> Divide(3, 4), direction_accuracy |-> 0]}

Point(d, v) == [date |-> d, value |-> v]

\* Response bodies of POST /api/predict.
ForecastBodies ==
  {[ticker |-> "RELIANCE", source |-> "local", last_close |-> 2, horizon |-> 2,
    history |-> <<Point("d0", 2)>>, forecast |-> <<Point("d1", 3), Point("d2", 1)>>],
   [ticker |-> "TCS", source |-> "local", last_close |-> 0, horizon |-> 1,
    history |-> <<Point("d0", 0)>>, forecast |-> <<Point("d1", 1)>>]}

\* Response bodies of GET /api/history: with points, without the field.
HistoryBodies ==
  {[history |-> <<Point("d0", 2)>>], [ticker |-> "RELIANCE"]}

\* Response bodies of GET /api/symbols.
SymbolsBodies ==
  {[symbols |-> <<"RELIANCE", "TCS">>], [count |-> 0]}

\* What an awaited call rejects with: an axios error with a response whose
\* body has a detail, has an empty detail or has none; an error without a
\* response and with an empty message.
Errors ==
  {[message |-> "Request failed with status code 400",
    response |-> [data |-> [detail |-> "Ticker not found"]]],
   [message |-> "Request failed with status code 500",
    response |-> [data |-> [detail |-> ""]]],
   [message |-> "Request failed with status code 500",
    response |-> [data |-> [status |-> "error"]]],
   [message |-> ""]}

\* err?.response?.data?.detail
Detail(err) ==
  IF "response" \in DOMAIN err
  THEN IF "detail" \in DOMAIN err.response.data
       THEN err.response.data.detail
       ELSE Undefined
  ELSE Undefined

\* Variant: the error's own message is taken before the server's detail.
ErrorMessageMessageFirst(err, fallback) == Or(Or(err.message, Detail(err)), fallback)

\* Variant: the generic fallback is left out.
ErrorMessageNoFallback(err, fallback) == Or(Detail(err), err.message)

\* err?.response?.data?.detail || err.message || fallback
ErrorMessage(err, fallback) == Or(Or(Detail(err), err.message), fallback)

\* data.field || []  (an array, also the empty one, is truthy)
ArrayOr(data, field) == IF field \in DOMAIN data THEN data[field] ELSE <<>>

\* ------------------------------------------------------- derived views
\* Variant: step is the zero-based index of the map callback.
forecastRowsZeroBased(result) ==
  IF result = NoResult
  THEN <<>>
  ELSE LET base == result.last_close
       IN  [index \in 1 .. Len(result.forecast) |->
              LET point == result.forecast[index]
                  delta == point.value - base
                  pct == IF base = 0 THEN Zero ELSE Times(Divide(delta, base), 100)
              IN  [step |-> index - 1, date |-> point.date, value |-> point.value,
                   delta |-> delta, pct |-> pct]]

\* The forecastRows memo: one row per forecast point.
forecastRowsOf(result) ==
  IF result = NoResult
  THEN <<>>
  ELSE LET base == result.last_close
       IN  [index \in 1 .. Len(result.forecast) |->
              LET point == result.forecast[index]
                  delta == point.value - base
                  pct == IF base = 0 THEN Zero ELSE Times(Divide(delta, base), 100)
              IN  [step |-> index, date |-> point.date, value |-> point.value,
                   delta |-> delta, pct |-> pct]]

\* The chartData memo.
chartData ==
  IF forecastResult # NoResult
  THEN [i \in 1 .. Len(forecastResult.history) |->
          [date |-> forecastResult.history[i].date,
           history |-> forecastResult.history[i].value, forecast |-> Null]]
       \o [i \in 1 .. Len(forecastResult.forecast) |->
          [date |-> forecastResult.forecast[i].date,
           history |-> Null, forecast |-> forecastResult.forecast[i].value]]
  ELSE IF Len(historyOnly) > 0
       THEN [i \in 1 .. Len(historyOnly) |->
               [date |-> historyOnly[i].date, history |-> historyOnly[i].value,
                forecast |-> Null]]
       ELSE <<>>

\* null in a slot that otherwise holds a double.
NoNumber == [null |-> TRUE]

\* two decimal digits of n < 100
Digits2(n) == IF n < 10 THEN "0" \o ToString(n) ELSE ToString(n)

\* value.toFixed(2) of a double below 2^31 / 100 in magnitude: "-" if the
\* value is below zero, then the n for which n / 100 - |value| is as close
\* to zero as possible (the larger n if there are two), printed with two
\* digits after the point.  n is taken from the double's exact value.
ToFixed2(value) ==
  LET t == MulBits(value.mant, 100)
      s == -value.exp
      whole == IF s <= 0 THEN ValueOf(Zeros(-s) \o t) ELSE ValueOf(SubSeq(t, s + 1, Len(t)))
      half == IF s >= 1 THEN Bit(t, s) ELSE 0
      n == whole + half
  IN  (IF value.sign < 0 /\ value.mant # <<>> THEN "-" ELSE "")
        \o ToString(n \div 100) \o "." \o Digits2(n % 100)

\* formatPct: "--" for what is not a number, else the two-decimal text
\* followed by "%".
formatPct(value) ==
  IF value = NoNumber THEN "--" ELSE ToFixed2(value) \o "%"

\* forecastResult?.forecast?.at(-1)?.value is a number.
HasForecastEnd == forecastResult # NoResult /\ Len(forecastResult.forecast) > 0

forecastEnd == forecastResult.forecast[Len(forecastResult.forecast)].value

lastClose == forecastResult.last_close

projectedChangePct ==
  IF HasForecastEnd /\ lastClose # 0
  THEN Times(Divide(forecastEnd - lastClose, lastClose), 100)
  ELSE NoNumber

\* value of the Projected Change KPI tile, and the text after
\* "Projected Change:" in the forecast snapshot.
ProjectedChangeShown ==
  IF projectedChangePct # NoNumber THEN formatPct(projectedChangePct) ELSE "--"

\* Variant: the Train Model button is never disabled.
TrainNeverDisabled == FALSE

\* disabled= of the three buttons that start a request.
TrainDisabled == loadingTrain

PredictDisabled == loadingPredict

HistoryDisabled == loadingHistory

\* ------------------------------------------------------------ operations
\* The run may take another user action (the model's bound on a run).
Budget == accepted["train"] + accepted["predict"] + accepted["history"]
            + accepted["symbols"] + accepted["edit"] < MaxActions

Init ==
  /\ mounted = FALSE
  /\ trainForm = initialTrain
  /\ predictForm = initialPredict
  /\ symbols = <<>>
  /\ trainResult = NoResult
  /\ forecastResult = NoResult
  /\ historyOnly = <<>>
  /\ loadingTrain = FALSE
  /\ loadingPredict = FALSE
  /\ loadingHistory = FALSE
  /\ loadingSymbols = FALSE
  /\ error = ""
  /\ forecastRows = <<>>
  /\ net = {}
  /\ nextId = 1
  /\ accepted = [k \in Handled |-> 0]
  /\ wire = <<>>

\* Variant: no early return for yfinance.
loadSymbolsNoShortcut(dataSource, localDataDir) ==
  /\ loadingSymbols' = TRUE
  /\ Issue("symbols",
           getSymbols([data_source |-> dataSource,
                       local_data_dir |-> Or(localDataDir, Undefined)]),
           [data_source |-> dataSource, local_data_dir |-> localDataDir])
  /\ UNCHANGED symbols

\* loadSymbols up to its await.  The effect calls it with the train form's
\* data_source and local_data_dir of the render that scheduled it.
loadSymbols(dataSource, localDataDir) ==
  IF dataSource = "yfinance"
  THEN /\ symbols' = <<>>
       /\ UNCHANGED <<loadingSymbols, net, nextId, wire>>
  ELSE /\ loadingSymbols' = TRUE
       /\ Issue("symbols",
                getSymbols([data_source |-> dataSource,
                            local_data_dir |-> Or(localDataDir, Undefined)]),
                [data_source |-> dataSource, local_data_dir |-> localDataDir])
       /\ UNCHANGED symbols

\* The effect on [trainForm.data_source, trainForm.local_data_dir]; form is
\* the train form of the render that runs it.
SymbolsEffect(form) ==
  /\ loadSymbols(form.data_source, form.local_data_dir)
  /\ accepted' = [accepted EXCEPT !["symbols"] = @ + 1]

\* First render: the effect runs once.
Mount ==
  /\ ~mounted
  /\ Budget
  /\ mounted' = TRUE
  /\ SymbolsEffect(trainForm)
  /\ UNCHANGED <<trainForm, predictForm, trainResult, forecastResult, historyOnly,
                 loadingTrain, loadingPredict, loadingHistory, error, forecastRows>>

\* onChange of the train form's Data Source select: the re-render has a new
\* dependency value, so the effect runs again.
EditTrainSource(v) ==
  /\ mounted
  /\ v # trainForm.data_source
  /\ Budget
  /\ trainForm' = [trainForm EXCEPT !.data_source = v]
  /\ SymbolsEffect(trainForm')
  /\ UNCHANGED <<mounted, predictForm, trainResult, forecastResult, historyOnly,
                 loadingTrain, loadingPredict, loadingHistory, error, forecastRows>>

\* onChange of the train form's Local Data Directory input.
EditTrainDir(v) ==
  /\ mounted
  /\ v # trainForm.local_data_dir
  /\ Budget
  /\ trainForm' = [trainForm EXCEPT !.local_data_dir = v]
  /\ SymbolsEffect(trainForm')
  /\ UNCHANGED <<mounted, predictForm, trainResult, forecastResult, historyOnly,
                 loadingTrain, loadingPredict, loadingHistory, error, forecastRows>>

\* loadSymbols after its await: try-rest, finally.
SymbolsOK(r, data) ==
  /\ r \in net /\ r.kind = "symbols"
  /\ symbols' = ArrayOr(data, "symbols")
  /\ loadingSymbols' = FALSE
  /\ Settle(r, "ok", data)
  /\ UNCHANGED <<mounted, trainForm, predictForm, trainResult, forecastResult,
                 historyOnly, loadingTrain, loadingPredict, loadingHistory, error,
                 forecastRows, accepted>>

\* loadSymbols after its await: catch, finally.
SymbolsFail(r, err) ==
  /\ r \in net /\ r.kind = "symbols"
  /\ symbols' = <<>>
  /\ loadingSymbols' = FALSE
  /\ Settle(r, "fail", err)
  /\ UNCHANGED <<mounted, trainForm, predictForm, trainResult, forecastResult,
                 historyOnly, loadingTrain, loadingPredict, loadingHistory, error,
                 forecastRows, accepted>>

\* StringToNumber on the texts of TypedInto: the empty text is 0.
StringToNumber(text) ==
  CASE text = "" -> 0
    [] text = "5" -> 5
    [] text = "7" -> 7
    [] text = "45" -> 45
    [] text = "64" -> 64
    [] text = "120" -> 120
    [] text = "0.01" -> Divide(1, 100)

\* Number(v) of a numeric form field: the number it holds, or the number
\* its text denotes.
Number(v) == IF "string" \in DOMAIN v THEN StringToNumber(v.string) ELSE v.number

\* onTrainSubmit up to its await.
onTrainSubmit ==
  /\ mounted
  /\ ~TrainDisabled
  /\ Budget
  /\ error' = ""
  /\ loadingTrain' = TRUE
  /\ Issue("train",
           trainModel([trainForm EXCEPT
                         !.input_len = Number(trainForm.input_len),
                         !.pred_len = Number(trainForm.pred_len),
                         !.epochs = Number(trainForm.epochs),
                         !.batch_size = Number(trainForm.batch_size),
                         !.learning_rate = Number(trainForm.learning_rate),
                         !.local_data_dir = Or(trainForm.local_data_dir, Null)]),
           trainForm)
  /\ accepted' = [accepted EXCEPT !["train"] = @ + 1]
  /\ UNCHANGED <<mounted, trainForm, predictForm, symbols, trainResult,
                 forecastResult, historyOnly, loadingPredict, loadingHistory,
                 loadingSymbols, forecastRows>>

\* Variant: the updater reads the train form of the latest render.
TrainOKReadsLatestForm(r, data) ==
  /\ r \in net /\ r.kind = "train"
  /\ trainResult' = data
  /\ predictForm' = [predictForm EXCEPT !.ticker = trainForm.ticker,
                                        !.data_source = trainForm.data_source,
                                        !.local_data_dir = trainForm.local_data_dir]
  /\ loadingTrain' = FALSE
  /\ Settle(r, "ok", data)
  /\ UNCHANGED <<mounted, trainForm, symbols, forecastResult, historyOnly,
                 loadingPredict, loadingHistory, loadingSymbols, error,
                 forecastRows, accepted>>

\* onTrainSubmit after its await: try-rest, finally.  trainForm in the
\* updater is the one the handler closed over.
TrainOK(r, data) ==
  /\ r \in net /\ r.kind = "train"
  /\ trainResult' = data
  /\ predictForm' = [predictForm EXCEPT !.ticker = r.closure.ticker,
                                        !.data_source = r.closure.data_source,
                                        !.local_data_dir = r.closure.local_data_dir]
  /\ loadingTrain' = FALSE
  /\ Settle(r, "ok", data)
  /\ UNCHANGED <<mounted, trainForm, symbols, forecastResult, historyOnly,
                 loadingPredict, loadingHistory, loadingSymbols, error,
                 forecastRows, accepted>>

\* Variant: the catch path sends the call again.
TrainFailRetry(r, err) ==
  /\ r \in net /\ r.kind = "train"
  /\ error' = ErrorMessage(err, "Training failed")
  /\ loadingTrain' = TRUE
  /\ net' = (net \ {r}) \cup {[r EXCEPT !.id = nextId]}
  /\ wire' = wire \o <<[ev |-> "fail", id |-> r.id, kind |-> r.kind, value |-> Null],
                       [ev |-> "send", id |-> nextId, kind |-> r.kind, call |-> r.call]>>
  /\ nextId' = nextId + 1
  /\ UNCHANGED <<mounted, trainForm, predictForm, symbols, trainResult,
                 forecastResult, historyOnly, loadingPredict, loadingHistory,
                 loadingSymbols, forecastRows, accepted>>

\* Variant: the catch path drops the stored result.
TrainFailClearsResult(r, err) ==
  /\ r \in net /\ r.kind = "train"
  /\ error' = ErrorMessage(err, "Training failed")
  /\ trainResult' = NoResult
  /\ loadingTrain' = FALSE
  /\ Settle(r, "fail", err)
  /\ UNCHANGED <<mounted, trainForm, predictForm, symbols,
                 forecastResult, historyOnly, loadingPredict, loadingHistory,
                 loadingSymbols, forecastRows, accepted>>

\* onTrainSubmit after its await: catch, finally.
TrainFail(r, err) ==
  /\ r \in net /\ r.kind = "train"
  /\ error' = ErrorMessage(err, "Training failed")
  /\ loadingTrain' = FALSE
  /\ Settle(r, "fail", err)
  /\ UNCHANGED <<mounted, trainForm, predictForm, symbols, trainResult,
                 forecastResult, historyOnly, loadingPredict, loadingHistory,
                 loadingSymbols, forecastRows, accepted>>

\* onPredictSubmit up to its await.
onPredictSubmit ==
  /\ mounted
  /\ ~PredictDisabled
  /\ Budget
  /\ error' = ""
  /\ loadingPredict' = TRUE
  /\ Issue("predict",
           predictStock([predictForm EXCEPT
                           !.horizon = Number(predictForm.horizon),
                           !.history_points = Number(predictForm.history_points),
                           !.local_data_dir = Or(predictForm.local_data_dir, Null)]),
           predictForm)
  /\ accepted' = [accepted EXCEPT !["predict"] = @ + 1]
  /\ UNCHANGED <<mounted, trainForm, predictForm, symbols, trainResult,
                 forecastResult, historyOnly, loadingTrain, loadingHistory,
                 loadingSymbols, forecastRows>>

\* Variant: a successful forecast also clears the error.
PredictOKClearsError(r, data) ==
  /\ r \in net /\ r.kind = "predict"
  /\ forecastResult' = data
  /\ historyOnly' = <<>>
  /\ error' = ""
  /\ loadingPredict' = FALSE
  /\ forecastRows' = forecastRowsOf(forecastResult')
  /\ Settle(r, "ok", data)
  /\ UNCHANGED <<mounted, trainForm, predictForm, symbols, trainResult,
                 loadingTrain, loadingHistory, loadingSymbols, accepted>>

\* Variant: a successful forecast leaves the loaded history in place.
PredictOKKeepsHistory(r, data) ==
  /\ r \in net /\ r.kind = "predict"
  /\ forecastResult' = data
  /\ loadingPredict' = FALSE
  /\ forecastRows' = forecastRowsOf(forecastResult')
  /\ Settle(r, "ok", data)
  /\ UNCHANGED <<mounted, trainForm, predictForm, symbols, trainResult, historyOnly,
                 loadingTrain, loadingHistory, loadingSymbols, error, accepted>>

\* onPredictSubmit after its await: try-rest, finally; the re-render
\* recomputes the forecastRows memo.
PredictOK(r, data) ==
  /\ r \in net /\ r.kind = "predict"
  /\ forecastResult' = data
  /\ historyOnly' = <<>>
  /\ loadingPredict' = FALSE
  /\ forecastRows' = forecastRowsOf(forecastResult')
  /\ Settle(r, "ok", data)
  /\ UNCHANGED <<mounted, trainForm, predictForm, symbols, trainResult,
                 loadingTrain, loadingHistory, loadingSymbols, error, accepted>>

\* onPredictSubmit after its await: catch, finally.
PredictFail(r, err) ==
  /\ r \in net /\ r.kind = "predict"
  /\ error' = ErrorMessage(err, "Prediction failed")
  /\ loadingPredict' = FALSE
  /\ Settle(r, "fail", err)
  /\ UNCHANGED <<mounted, trainForm, predictForm, symbols, trainResult,
                 forecastResult, historyOnly, loadingTrain, loadingHistory,
                 loadingSymbols, forecastRows, accepted>>

\* onLoadHistory up to its await.
onLoadHistory ==
  /\ mounted
  /\ ~HistoryDisabled
  /\ Budget
  /\ error' = ""
  /\ loadingHistory' = TRUE
  /\ Issue("history",
           getHistory([ticker |-> predictForm.ticker,
                       history_points |-> Number(predictForm.history_points),
                       data_source |-> predictForm.data_source,
                       local_data_dir |-> Or(predictForm.local_data_dir, Undefined)]),
           predictForm)
  /\ accepted' = [accepted EXCEPT !["history"] = @ + 1]
  /\ UNCHANGED <<mounted, trainForm, predictForm, symbols, trainResult,
                 forecastResult, historyOnly, loadingTrain, loadingPredict,
                 loadingSymbols, forecastRows>>

\* onLoadHistory after its await: try-rest, finally; the re-render
\* recomputes the forecastRows memo.
HistoryOK(r, data) ==
  /\ r \in net /\ r.kind = "history"
  /\ historyOnly' = ArrayOr(data, "history")
  /\ forecastResult' = NoResult
  /\ loadingHistory' = FALSE
  /\ forecastRows' = forecastRowsOf(forecastResult')
  /\ Settle(r, "ok", data)
  /\ UNCHANGED <<mounted, trainForm, predictForm, symbols, trainResult,
                 loadingTrain, loadingPredict, loadingSymbols, error, accepted>>

\* onLoadHistory after its await: catch, finally.
HistoryFail(r, err) ==
  /\ r \in net /\ r.kind = "history"
  /\ error' = ErrorMessage(err, "History fetch failed")
  /\ loadingHistory' = FALSE
  /\ Settle(r, "fail", err)
  /\ UNCHANGED <<mounted, trainForm, predictForm, symbols, trainResult,
                 forecastResult, historyOnly, loadingTrain, loadingPredict,
                 loadingSymbols, forecastRows, accepted>>

\* ------------------------------------------------ editing the two forms
\* A handler that only sets form state: one more user action, nothing on
\* the wire, no other state written (the effect's dependencies are as they
\* were, so it does not run).
FormOnly ==
  /\ accepted' = [accepted EXCEPT !["edit"] = @ + 1]
  /\ UNCHANGED <<mounted, symbols, trainResult, forecastResult, historyOnly,
                 loadingTrain, loadingPredict, loadingHistory, loadingSymbols,
                 error, forecastRows, net, nextId, wire>>

\* What a user types into a Ticker input.
Typed == {"tcs"}

\* What a user types into each numeric input (e.target.value).
TypedInto ==
  [input_len |-> {"45"}, pred_len |-> {"7"}, epochs |-> {""},
   batch_size |-> {"64"}, learning_rate |-> {"0.01"}, horizon |-> {"5"},
   history_points |-> {"120"}]

\* String.prototype.toUpperCase on the typed values.
ToUpperCase(str) ==
  CASE str = "tcs" -> "TCS"
    [] str = "TCS" -> "TCS"
    [] str = "reliance" -> "RELIANCE"
    [] str = "RELIANCE" -> "RELIANCE"

\* The text a numeric input shows for the whole number or the text its
\* field holds (value={...}); a change event carries a text other than it.
InputValue(v) == IF "string" \in DOMAIN v THEN v.string ELSE ToString(v.number)

\* The same for the Learning Rate input, whose field holds no number but
\* its initial one.
LearningRateValue(v) == IF "string" \in DOMAIN v THEN v.string ELSE "0.001"

\* symbols.slice(0, 16): the Quick Symbols chips.
QuickSymbols == SubSeq(symbols, 1, IF Len(symbols) < 16 THEN Len(symbols) ELSE 16)

\* onChange of the train form's Ticker input.
EditTrainTicker(typed) ==
  /\ mounted
  /\ Budget
  /\ ToUpperCase(typed) # trainForm.ticker
  /\ trainForm' = [trainForm EXCEPT !.ticker = ToUpperCase(typed)]
  /\ UNCHANGED predictForm
  /\ FormOnly

\* onChange of the train form's Period select.
EditPeriod(v) ==
  /\ mounted
  /\ Budget
  /\ v # trainForm.period
  /\ trainForm' = [trainForm EXCEPT !.period = v]
  /\ UNCHANGED predictForm
  /\ FormOnly

\* onChange of the train form's Input Length input.
EditInputLength(text) ==
  /\ mounted
  /\ Budget
  /\ text # InputValue(trainForm.input_len)
  /\ trainForm' = [trainForm EXCEPT !.input_len = Str(text)]
  /\ UNCHANGED predictForm
  /\ FormOnly

\* onChange of the train form's Prediction Length input.
EditPredictionLength(text) ==
  /\ mounted
  /\ Budget
  /\ text # InputValue(trainForm.pred_len)
  /\ trainForm' = [trainForm EXCEPT !.pred_len = Str(text)]
  /\ UNCHANGED predictForm
  /\ FormOnly

\* onChange of the train form's Epochs input.
EditEpochs(text) ==
  /\ mounted
  /\ Budget
  /\ text # InputValue(trainForm.epochs)
  /\ trainForm' = [trainForm EXCEPT !.epochs = Str(text)]
  /\ UNCHANGED predictForm
  /\ FormOnly

\* onChange of the train form's Batch Size input.
EditBatchSize(text) ==
  /\ mounted
  /\ Budget
  /\ text # InputValue(trainForm.batch_size)
  /\ trainForm' = [trainForm EXCEPT !.batch_size = Str(text)]
  /\ UNCHANGED predictForm
  /\ FormOnly

\* onChange of the train form's Learning Rate input.
EditLearningRate(text) ==
  /\ mounted
  /\ Budget
  /\ text # LearningRateValue(trainForm.learning_rate)
  /\ trainForm' = [trainForm EXCEPT !.learning_rate = Str(text)]
  /\ UNCHANGED predictForm
  /\ FormOnly

\* onChange of the predict form's Ticker input.
EditPredictTicker(typed) ==
  /\ mounted
  /\ Budget
  /\ ToUpperCase(typed) # predictForm.ticker
  /\ predictForm' = [predictForm EXCEPT !.ticker = ToUpperCase(typed)]
  /\ UNCHANGED trainForm
  /\ FormOnly

\* onChange of the predict form's Data Source select.
EditPredictSource(v) ==
  /\ mounted
  /\ Budget
  /\ v # predictForm.data_source
  /\ predictForm' = [predictForm EXCEPT !.data_source = v]
  /\ UNCHANGED trainForm
  /\ FormOnly

\* onChange of the predict form's Horizon (Days) input.
EditHorizon(text) ==
  /\ mounted
  /\ Budget
  /\ text # InputValue(predictForm.horizon)
  /\ predictForm' = [predictForm EXCEPT !.horizon = Str(text)]
  /\ UNCHANGED trainForm
  /\ FormOnly

\* onChange of the predict form's History Points input.
EditHistoryPoints(text) ==
  /\ mounted
  /\ Budget
  /\ text # InputValue(predictForm.history_points)
  /\ predictForm' = [predictForm EXCEPT !.history_points = Str(text)]
  /\ UNCHANGED trainForm
  /\ FormOnly

\* onChange of the predict form's Local Data Directory input.
EditPredictDir(v) ==
  /\ mounted
  /\ Budget
  /\ v # predictForm.local_data_dir
  /\ predictForm' = [predictForm EXCEPT !.local_data_dir = v]
  /\ UNCHANGED trainForm
  /\ FormOnly

\* className of a horizon preset button: it is the active one.
PresetActive(preset) == Number(predictForm.horizon) = preset

\* onClick of a horizon preset button: the field holds the number, also
\* where it held the number's text.
PresetHorizon(preset) ==
  /\ mounted
  /\ Budget
  /\ predictForm.horizon # Num(preset)
  /\ predictForm' = [predictForm EXCEPT !.horizon = Num(preset)]
  /\ UNCHANGED trainForm
  /\ FormOnly

\* applySymbol, onClick of a Quick Symbols chip.
applySymbol(symbol) ==
  /\ mounted
  /\ Budget
  /\ trainForm.ticker # symbol \/ predictForm.ticker # symbol
  /\ trainForm' = [trainForm EXCEPT !.ticker = symbol]
  /\ predictForm' = [predictForm EXCEPT !.ticker = symbol]
  /\ FormOnly

\* --------------------------------------------------------- the component
Options(options) == {options[i] : i \in DOMAIN options}

Next ==
  \/ Mount
  \/ \E i \in DOMAIN QuickSymbols : applySymbol(QuickSymbols[i])
  \/ \E typed \in Typed : EditTrainTicker(typed)
  \/ \E v \in Options(sourceOptions) : EditTrainSource(v)
  \/ \E v \in Options(periodOptions) : EditPeriod(v)
  \/ \E v \in Dirs : EditTrainDir(v)
  \/ \E text \in TypedInto.input_len : EditInputLength(text)
  \/ \E text \in TypedInto.pred_len : EditPredictionLength(text)
  \/ \E text \in TypedInto.epochs : EditEpochs(text)
  \/ \E text \in TypedInto.batch_size : EditBatchSize(text)
  \/ \E text \in TypedInto.learning_rate : EditLearningRate(text)
  \/ onTrainSubmit
  \/ \E typed \in Typed : EditPredictTicker(typed)
  \/ \E v \in Options(sourceOptions) : EditPredictSource(v)
  \/ \E text \in TypedInto.horizon : EditHorizon(text)
  \/ \E text \in TypedInto.history_points : EditHistoryPoints(text)
  \/ \E v \in Dirs : EditPredictDir(v)
  \/ \E preset \in Options(horizonPresets) : PresetHorizon(preset)
  \/ onLoadHistory
  \/ onPredictSubmit
  \/ \E r \in net, data \in SymbolsBodies : SymbolsOK(r, data)
  \/ \E r \in net, err \in Errors : SymbolsFail(r, err)
  \/ \E r \in net, data \in TrainBodies : TrainOK(r, data)
  \/ \E r \in net, err \in Errors : TrainFail(r, err)
  \/ \E r \in net, data \in ForecastBodies : PredictOK(r, data)
  \/ \E r \in net, err \in Errors : PredictFail(r, err)
  \/ \E r \in net, data \in HistoryBodies : HistoryOK(r, data)
  \/ \E r \in net, err \in Errors : HistoryFail(r, err)

Spec == Init /\ [][Next]_vars

\* ------------------------------------------- forecastRows on its own
\* Forecast responses over every last_close in 0 .. MaxPrice and every
\* forecast of at most MaxLen points with values in 0 .. MaxPrice.
Dates == <<"d1", "d2", "d3", "d4", "d5", "d6">>

WideForecastBodies ==
  {[ticker |-> "RELIANCE", source |-> "local", last_close |-> c, horizon |-> n,
    history |-> <<Point("d0", c)>>,
    forecast |-> [i \in 1 .. n |-> Point(Dates[i], f[i])]] :
     c \in 0 .. MaxPrice, n \in 0 .. MaxLen, f \in [1 .. MaxLen -> 0 .. MaxPrice]}

\* The state after Mount and one onPredictSubmit: the symbols request of the
\* mount effect and the predict request are in flight.
InitRows ==
  /\ mounted = TRUE
  /\ trainForm = initialTrain
  /\ predictForm = initialPredict
  /\ symbols = <<>>
  /\ trainResult = NoResult
  /\ forecastResult = NoResult
  /\ historyOnly = <<>>
  /\ loadingTrain = FALSE
  /\ loadingPredict = TRUE
  /\ loadingHistory = FALSE
  /\ loadingSymbols = TRUE
  /\ error = ""
  /\ forecastRows = <<>>
  /\ net = {[id |-> 1, kind |-> "symbols",
             call |-> getSymbols([data_source |-> "local", local_data_dir |-> Undefined]),
             closure |-> [data_source |-> "local", local_data_dir |-> ""]],
            [id |-> 2, kind |-> "predict",
             call |-> predictStock([initialPredict EXCEPT
                                    !.horizon = Number(initialPredict.horizon),
                                    !.history_points = Number(initialPredict.history_points),
                                    !.local_data_dir = Null]),
             closure |-> initialPredict]}
  /\ nextId = 3
  /\ accepted = [k \in Handled |-> IF k \in {"symbols", "predict"} THEN 1 ELSE 0]
  /\ wire = <<[ev |-> "send", id |-> 1, kind |-> "symbols",
               call |-> getSymbols([data_source |-> "local", local_data_dir |-> Undefined])],
              [ev |-> "send", id |-> 2, kind |-> "predict",
               call |-> predictStock([initialPredict EXCEPT
                                    !.horizon = Number(initialPredict.horizon),
                                    !.history_points = Number(initialPredict.history_points),
                                    !.local_data_dir = Null])]>>

NextRows == \E r \in net, data \in WideForecastBodies : PredictOK(r, data)

SpecRows == InitRows /\ [][NextRows]_vars

\* InitRows is a state of Spec.
InitRowsUnreached == ~InitRows

\* ================================================================ claims
InFlight(k) == {r \in net : r.kind = k}

Loading(k) ==
  CASE k = "train" -> loadingTrain
    [] k = "predict" -> loadingPredict
    [] k = "history" -> loadingHistory
    [] k = "symbols" -> loadingSymbols

ButtonKinds == {"train", "predict", "history"}

\* Positions of the wire with event ev of one of the kinds ks.
Events(ev, ks) == {i \in DOMAIN wire : wire[i].ev = ev /\ wire[i].kind \in ks}

\* C1: for train, predict and load history, at most one request of the kind
\* is in flight in every state, and a step issues a new request of the kind
\* only from a state whose loading flag of that kind is false.
C1_OneInFlightPerButton ==
  [][\A k \in ButtonKinds :
       /\ Cardinality(InFlight(k)') <= 1
       /\ (InFlight(k)' \ InFlight(k) # {} => ~Loading(k))]_vars

\* C1 witness: a second train request is in flight, issued after the first
\* one settled.
C1_Witness == accepted["train"] = 2 /\ Cardinality(InFlight("train")) = 1

\* C2 as stated: at most one GET /api/symbols request is in flight at any
\* time.
C2_OneSymbolsInFlight == Cardinality(InFlight("symbols")) <= 1

\* C2 amended: a step issues at most one GET /api/symbols request, and only
\* as the effect of the mount or of an edit of data_source or local_data_dir
\* that leaves data_source other than yfinance; such an edit issues exactly
\* one, an edit to yfinance none, and the requests of earlier edits stay in
\* flight.
C2_OneSymbolsRequestPerEdit ==
  [][LET new == InFlight("symbols")' \ InFlight("symbols")
         edit == \/ mounted' # mounted
                 \/ trainForm'.data_source # trainForm.data_source
                 \/ trainForm'.local_data_dir # trainForm.local_data_dir
     IN  /\ Cardinality(new) <= 1
         /\ InFlight("symbols") \subseteq InFlight("symbols")' \/ new = {}
         /\ new # {} => edit /\ trainForm'.data_source # "yfinance"
         /\ edit /\ trainForm'.data_source # "yfinance" => Cardinality(new) = 1
         /\ \A r \in new : /\ r.call.method = "GET"
                           /\ r.call.path = "/api/symbols"]_vars

\* C2 witness: two symbols requests in flight, the second from an edit.
C2_Witness == Cardinality(InFlight("symbols")) = 2 /\ trainForm # initialTrain

\* Calls of method and path that left, counted on the wire.
Sent(method, path) ==
  Cardinality({i \in DOMAIN wire : /\ wire[i].ev = "send"
                                   /\ wire[i].call.method = method
                                   /\ wire[i].call.path = path})

\* C3: the calls sent to POST /api/train, POST /api/predict and
\* GET /api/history are as many as the accepted train submits, predict
\* submits and load-history clicks: one call per action, none reissued.
C3_OneCallPerAction ==
  /\ Sent("POST", "/api/train") = accepted["train"]
  /\ Sent("POST", "/api/predict") = accepted["predict"]
  /\ Sent("GET", "/api/history") = accepted["history"]

\* C3 witness: a train call failed, a history call failed, and nothing of
\* either kind is in flight.
C3_Witness ==
  /\ Events("fail", {"train"}) # {} /\ Events("fail", {"history"}) # {}
  /\ InFlight("train") = {} /\ InFlight("history") = {}

\* C4: trainResult is the body of the succeeded train request issued last
\* (greatest id), null when none has succeeded; so a failure leaves it as
\* it was.
C4_TrainResultIsLastSuccess ==
  LET oks == Events("ok", {"train"})
  IN  IF oks = {}
      THEN trainResult = NoResult
      ELSE \E i \in oks : /\ \A j \in oks : wire[j].id <= wire[i].id
                          /\ trainResult = wire[i].value

\* C4 witness: a train request succeeded and a later one failed.
C4_Witness ==
  \E i \in Events("ok", {"train"}), j \in Events("fail", {"train"}) :
    i < j /\ trainResult # NoResult

\* The generic message of each action.
Fallback(k) ==
  CASE k = "train" -> "Training failed"
    [] k = "predict" -> "Prediction failed"
    [] k = "history" -> "History fetch failed"

\* The step is the catch path of request r, of kind k, rejecting with err.
Fails(k, r, err) ==
  CASE k = "train" -> TrainFail(r, err)
    [] k = "predict" -> PredictFail(r, err)
    [] k = "history" -> HistoryFail(r, err)
    [] k = "symbols" -> SymbolsFail(r, err)

HasDetail(err) ==
  /\ "response" \in DOMAIN err
  /\ "detail" \in DOMAIN err.response.data
  /\ err.response.data.detail # ""

\* C5: when a train, predict or history request fails, error becomes a
\* non-empty message: the response's detail when it has one (a non-empty
\* one), otherwise the error's message when that is non-empty, otherwise
\* the action's generic message.
C5_ErrorMessagePrecedence ==
  [][\A r \in net \ net', err \in Errors :
       LET k == r.kind
       IN  k \in ButtonKinds /\ Fails(k, r, err) =>
         /\ error' # ""
         /\ HasDetail(err) => error' = err.response.data.detail
         /\ ~HasDetail(err) /\ err.message # "" => error' = err.message
         /\ ~HasDetail(err) /\ err.message = "" => error' = Fallback(k)]_vars

\* C5 witness: a history request failed with neither detail nor message and
\* the generic message is shown.
C5_Witness ==
  /\ error = "History fetch failed"
  /\ wire # <<>> /\ wire[Len(wire)].ev = "fail" /\ wire[Len(wire)].kind = "history"

\* C6 as stated: after the failure of a request of any of the four kinds is
\* handled, error is non-empty.
C6_EveryFailureSurfaced ==
  [][\A r \in net \ net', err \in Errors :
       Fails(r.kind, r, err) => error' # ""]_vars

\* C6 amended: after the failure of a train, predict or history request is
\* handled, error is non-empty; the failure of a symbols request leaves
\* error as it was and empties the symbol list.
C6_ButtonFailuresSurfaced ==
  [][\A r \in net \ net', err \in Errors :
       Fails(r.kind, r, err) =>
         IF r.kind \in ButtonKinds
         THEN error' # ""
         ELSE error' = error /\ symbols' = <<>>]_vars

\* C6 witness: a predict request has failed and the alert is shown, and a
\* symbols request has failed too.
C6_Witness ==
  /\ error # ""
  /\ Events("fail", {"predict"}) # {}
  /\ Events("fail", {"symbols"}) # {}

\* limbs x - y for x >= y
RECURSIVE SubLimbs(_, _, _, _)
SubLimbs(x, y, j, borrow) ==
  IF j > Len(x)
  THEN <<>>
  ELSE LET t == x[j] - (IF j <= Len(y) THEN y[j] ELSE 0) - borrow
       IN  <<IF t < 0 THEN t + LimbBase ELSE t>>
             \o SubLimbs(x, y, j + 1, IF t < 0 THEN 1 ELSE 0)

\* x <= y, for binary digits without leading zeros
LessEq(x, y) ==
  \/ Len(x) < Len(y)
  \/ /\ Len(x) = Len(y)
     /\ \/ x = y
        \/ LET i == Max({j \in DOMAIN x : x[j] # y[j]}) IN x[i] < y[i]

\* |x - y|
Diff(x, y) ==
  IF LessEq(x, y)
  THEN BitsOfLimbs(SubLimbs(Limbs(y), Limbs(x), 1, 0))
  ELSE BitsOfLimbs(SubLimbs(Limbs(x), Limbs(y), 1, 0))

\* |pct| * |close| and 100 * |delta|, both as multiples of 2^pct.exp (of 1
\* if pct.exp > 0), in binary digits.
Scaled(pct, close, delta) ==
  LET a == MulBits(pct.mant, Abs(close))
      t == BitsOf(100 * Abs(delta))
  IN  IF pct.exp <= 0
      THEN [pct |-> a, exact |-> Trim(Zeros(-pct.exp) \o t)]
      ELSE [pct |-> Trim(Zeros(pct.exp) \o a), exact |-> t]

\* The double pct has the sign of delta / close (it is 0 where delta is).
SameSign(pct, close, delta) ==
  IF delta = 0
  THEN pct.mant = <<>>
  ELSE pct.mant # <<>> /\ (pct.sign < 0 <=> (delta < 0) # (close < 0))

\* pct differs from 100 * delta / close by at most one part in 2^(Precision - 2) of
\* the latter (two roundings, each of at most one part in 2^53).
NearPercent(pct, close, delta) ==
  /\ SameSign(pct, close, delta)
  /\ LET v == Scaled(pct, close, delta)
     IN  LessEq(Trim(Zeros(Precision - 2) \o Diff(v.pct, v.exact)), v.exact)

\* One row per forecast point, in order, with step, date, value and delta.
RowsFollowForecast ==
  /\ Len(forecastRows) = Len(forecastResult.forecast)
  /\ \A i \in 1 .. Len(forecastRows) :
       /\ forecastRows[i].step = i
       /\ forecastRows[i].date = forecastResult.forecast[i].date
       /\ forecastRows[i].value = forecastResult.forecast[i].value
       /\ forecastRows[i].delta = forecastResult.forecast[i].value - forecastResult.last_close

\* C7 as stated: forecastRows is empty when no forecast is stored; otherwise
\* it has one row per forecast point, in order, with step = 1 .. n,
\* delta = value - last_close and pct = 100 * delta / last_close (the double
\* nearest to that quotient, which is the quotient itself where it is a
\* double), except pct = 0 when last_close = 0.
C7_ForecastRows ==
  IF forecastResult = NoResult
  THEN forecastRows = <<>>
  ELSE /\ RowsFollowForecast
       /\ \A i \in 1 .. Len(forecastRows) :
            IF forecastResult.last_close = 0
            THEN forecastRows[i].pct = Zero
            ELSE forecastRows[i].pct
                   = Divide(100 * forecastRows[i].delta, forecastResult.last_close)

\* C7 amended: the same, with pct the double (delta / last_close) * 100: it
\* has the sign of delta, is 0 where delta is, and is 100 * delta /
\* last_close to within one part in 2^51, not always that number itself.
C7_ForecastRowsRounded ==
  IF forecastResult = NoResult
  THEN forecastRows = <<>>
  ELSE /\ RowsFollowForecast
       /\ \A i \in 1 .. Len(forecastRows) :
            IF forecastResult.last_close = 0
            THEN forecastRows[i].pct = Zero
            ELSE NearPercent(forecastRows[i].pct, forecastResult.last_close,
                             forecastRows[i].delta)

\* C7 witness: a forecast of two or more points is stored whose last_close
\* is 3, whose first point is 3 and whose second point is 1: the second pct
\* is the double of (-2 / 3) * 100, which is not the double nearest to -200 / 3.
C7_Witness ==
  /\ forecastResult # NoResult
  /\ Len(forecastRows) >= 2
  /\ forecastResult.last_close = 3
  /\ forecastRows[1].delta = 0
  /\ forecastRows[2].delta = -2
  /\ forecastRows[2].pct # Divide(-200, 3)

\* C8: error is empty exactly when no train, predict or history request
\* has failed since the latest of those actions was started.
C8_ErrorIffFailedSinceStart ==
  LET last == Max(Events("send", ButtonKinds) \cup {0})
  IN  (error = "") <=> (\A j \in Events("fail", ButtonKinds) : j < last)

\* C8 witness: a request failed, then a request of another kind succeeded,
\* and the error is still shown.
C8_Witness ==
  /\ error # ""
  /\ \E i \in Events("fail", ButtonKinds), j \in Events("ok", ButtonKinds) : i < j

\* C9: each loading flag is true exactly while a request of its kind is in
\* flight (so it is false once every request has settled).
C9_LoadingIffInFlight == \A k \in Kinds : Loading(k) <=> InFlight(k) # {}

\* C10: forecastResult and historyOnly are never both populated, and they
\* hold the response of the predict or load-history request that succeeded
\* last in completion order (both empty when none has); so a failure
\* changes neither.
C10_ForecastXorHistory ==
  LET oks == Events("ok", {"predict", "history"})
  IN  /\ ~(forecastResult # NoResult /\ historyOnly # <<>>)
      /\ IF oks = {}
         THEN forecastResult = NoResult /\ historyOnly = <<>>
         ELSE LET e == wire[Max(oks)]
              IN  IF e.kind = "predict"
                  THEN forecastResult = e.value /\ historyOnly = <<>>
                  ELSE /\ forecastResult = NoResult
                       /\ historyOnly = (IF "history" \in DOMAIN e.value
                                         THEN e.value.history ELSE <<>>)

\* C10 witness: a history request issued after a predict request succeeded
\* with points before it, then the predict request succeeded: the forecast
\* is stored and the history is dropped.
C10_Witness ==
  /\ forecastResult # NoResult
  /\ \E i \in Events("ok", {"history"}), j \in Events("ok", {"predict"}) :
       /\ i < j
       /\ wire[i].id > wire[j].id
       /\ "history" \in DOMAIN wire[i].value
       /\ wire[i].value.history # <<>>

\* C11: once no symbols request is in flight, the symbol list is that of the
\* train form's current data_source and local_data_dir: empty for yfinance,
\* otherwise the response (empty on failure) of the request issued for the
\* current pair, which is the symbols request issued last.
C11_SymbolsOfCurrentSource ==
  InFlight("symbols") = {} /\ mounted =>
    IF trainForm.data_source = "yfinance"
    THEN symbols = <<>>
    ELSE LET sends == Events("send", {"symbols"})
             last == wire[Max(sends)]
         IN  /\ last.call.data.data_source = trainForm.data_source
             /\ last.call.data.local_data_dir
                  = (IF trainForm.local_data_dir = "" THEN Undefined
                     ELSE trainForm.local_data_dir)
             /\ \E i \in Events("ok", {"symbols"}) \cup Events("fail", {"symbols"}) :
                  /\ wire[i].id = last.id
                  /\ symbols = (IF wire[i].ev = "ok" /\ "symbols" \in DOMAIN wire[i].value
                                THEN wire[i].value.symbols ELSE <<>>)

\* C12: when a train request succeeds, the predict form's ticker,
\* data_source and local_data_dir become the train form's values of the
\* time the request was submitted (those sent in the request; an empty
\* local_data_dir is sent as null), whatever either form holds now, and its
\* horizon and history_points stay; a failed train request leaves the
\* predict form as it was.
C12_PredictFormFollowsSubmittedTrain ==
  [][\A r \in net \ net' :
       /\ \A data \in TrainBodies :
            TrainOK(r, data) =>
              LET sent == r.call.data
              IN  /\ predictForm'.ticker = sent.ticker
                  /\ predictForm'.data_source = sent.data_source
                  /\ predictForm'.local_data_dir
                       = (IF sent.local_data_dir = Null THEN "" ELSE sent.local_data_dir)
                  /\ predictForm'.horizon = predictForm.horizon
                  /\ predictForm'.history_points = predictForm.history_points
       /\ \A err \in Errors :
            TrainFail(r, err) => predictForm' = predictForm]_vars

\* C12 witness: a train request has just succeeded after the train form's
\* ticker was changed while it was in flight; the predict form has the
\* submitted ticker, not the train form's current one.
C12_Witness ==
  /\ wire # <<>>
  /\ wire[Len(wire)].ev = "ok" /\ wire[Len(wire)].kind = "train"
  /\ \E i \in Events("send", {"train"}) :
       /\ wire[i].id = wire[Len(wire)].id
       /\ wire[i].call.data.ticker # trainForm.ticker
       /\ predictForm.ticker = wire[i].call.data.ticker
       /\ predictForm.data_source = wire[i].call.data.data_source

\* C13: whenever a forecast with at least one point is stored, the Projected
\* Change shown in the KPI tile and the forecast snapshot is the Delta % of
\* the last row of the forecast tape (as formatPct prints both), for every
\* last_close, 0 included.
C13_ProjectedChangeIsLastRow ==
  forecastResult # NoResult /\ Len(forecastResult.forecast) > 0 =>
    ProjectedChangeShown = formatPct(forecastRows[Len(forecastRows)].pct)

\* The same with last_close = 0 set aside.
C13_ExceptZeroClose ==
  forecastResult # NoResult /\ Len(forecastResult.forecast) > 0
    /\ forecastResult.last_close # 0 =>
    ProjectedChangeShown = formatPct(forecastRows[Len(forecastRows)].pct)

====
